---- MODULE Spec2Model ----
(***************************************************************************)
(* Storybook generator scripts (anurag2025-ops/storybook-gemini).          *)
(*                                                                         *)
(* The repository holds six variants of one script.  Each variant is a     *)
(* value of the variable `script`:                                         *)
(*   "cli_27thMay"  src/unnamed/part_000 lines   1-248                     *)
(*   "cli_8thMay"   src/unnamed/part_000 lines 251-390                     *)
(*   "cli_stable"   src/unnamed/part_000 lines 392-525                     *)
(*   "cli_manual"   src/cli_manual.py                                      *)
(*   "cli"          src/cli.py                                             *)
(*   "cli_coloring" src/cli_coloring.py                                    *)
(*                                                                         *)
(* Spec      : one run of a script (keys, page loop, image synthesis with  *)
(*             retries, prompt log, PDF assembly).                         *)
(* FairSpec  : Spec with the fairness of a sequential program whose remote *)
(*             calls are answered.                                         *)
(***************************************************************************)
EXTENDS Integers, Sequences, FiniteSets, TLC

VARIABLES
  script,        \* which variant of the script runs
  keysOk,        \* the required API keys are in the environment
  pages,         \* the page records handed to build_pdf (their header kinds)
  fileBefore,    \* the prompt-log file exists before the run (same name reused)
  pc,            \* position of the (single-threaded) program
  err,           \* how the run ended abnormally, "none" while it has not
  idx,           \* ordinal of the page being produced (0 = generated cover)
  attempt,       \* loop variable of the retry loop, counted from 1
  tier,          \* prompt in use: "specific" or the "generic" fallback
  calls,         \* remote image calls issued by the current synthesizer call
  resp,          \* what the remote call in flight answered
  nat,           \* pixel size of the image the service answered with
  exc,           \* exception propagating inside the try block
  last,          \* how the current attempt failed (the code's `last`)
  attempts,      \* finished attempts of the current synthesizer call
  result,        \* what the synthesizer returned
  alarmPending,  \* a SIGALRM is scheduled (signal.alarm)
  handler,       \* installed SIGALRM handler
  oldH,          \* soft_timeout's saved handler `old`
  logFile,       \* content of the prompt-log file on disk
  LOG_PROMPTS,   \* cli_coloring's in-memory prompt list
  sent,          \* prompts received by the image service, with their page
  pdf,           \* pages added to the in-memory FPDF object
  doc,           \* the PDF written to disk
  docWritten,    \* pdf.output has run
  layIn,         \* overlay: the measured size of the wrapped caption, the random choice
  layOut,        \* overlay: the caption box it draws
  words,         \* wrapping: the caption's words (their rendered widths)
  lines,         \* wrapping: the lines produced
  cover,         \* make_cover: the title and the locals of the auto-fit loop
  surf,          \* compositing: the image objects, the argument and the result
  parse          \* parse_spec: the text and the locals of its loop

layVars == <<layIn, layOut>>
wrapVars == <<words, lines>>
\* What no step of a run changes: its configuration, and the variables of
\* the caption layout and wrapping, which are modelled on their own.
fnVars == <<cover, surf, parse>>
cfgVars == <<script, keysOk, pages, fileBefore, layVars, wrapVars, fnVars>>
ctlVars == <<pc, err, idx>>
synVars == <<attempt, tier, calls, resp, nat, exc, last, attempts, result>>
sigVars == <<alarmPending, handler, oldH>>
logVars == <<logFile, LOG_PROMPTS, sent>>
docVars == <<pdf, doc, docWritten>>
vars == <<cfgVars, ctlVars, synVars, sigVars, logVars, docVars>>
\* What the layout and wrapping steps leave alone.
runState == <<script, keysOk, pages, fileBefore, err, idx, synVars, sigVars, logVars, docVars>>

---------------------------------------------------------------------------
(* Program constants *)

MAX_RETRY == 2
PLACEHOLDER_GREY == 220
COLORING_GREY == 230

(* Bounds of the model *)
MaxPages == 2

Scripts == {"cli_27thMay", "cli_8thMay", "cli_stable", "cli_manual", "cli", "cli_coloring"}

\* Scripts whose synthesizer is imagen()/_imagen(): one prompt, retried.
ImagenScripts == {"cli_27thMay", "cli_manual", "cli", "cli_coloring"}
\* Scripts whose synthesizer is make_image(): falls back to a generic prompt.
MakeImageScripts == {"cli_8thMay", "cli_stable"}
\* Scripts that keep a prompt log.
DumpScripts == {"cli_27thMay", "cli_manual"}

RAW_SIZE == <<768, 1024>>
PAGE_SIZE(s) ==
  CASE s \in {"cli_27thMay", "cli_manual", "cli"} -> <<595, 842>>
    [] s \in MakeImageScripts -> <<640, 960>>
    [] OTHER -> <<612, 792>>

\* Sizes the service may answer with (3:4 portrait rasters).
NativeSizes == {<<768, 1024>>, <<896, 1280>>}

---------------------------------------------------------------------------
(* The image service and the decoding of its answer *)

\* What one generate_images call can do, besides running into the alarm:
\*  bytes      a decodable image
\*  truncated  bytes PIL identifies (Image.open succeeds) but cannot decode
\*  corrupt    bytes PIL cannot identify (Image.open raises)
\*  empty      no generated image
\*  nobytes    a generated image without image_bytes
\*  raises     a remote/network/auth error
ServiceOutcomes == {"bytes", "truncated", "corrupt", "empty", "nobytes", "raises"}

\* An off-by-one in the range of the retry loop.
MaxAttempts_OneMore(s) == MAX_RETRY + 2

\* range(...) of the retry loop, as a number of attempts.
MaxAttempts(s) ==
  IF s \in {"cli", "cli_coloring"} THEN MAX_RETRY ELSE MAX_RETRY + 1

\* The outcome of an attempt as the code sees it, from the answer and the
\* exception in flight: "ok" (an image is returned), "empty" (the explicit
\* emptiness test failed), "error" (an exception was caught), "timeout".
Observed(s, raw, e) ==
  CASE e = "Timeout" -> "timeout"
    [] e = "Error" -> "error"
    [] raw = "raises" -> "error"
    [] raw = "empty" -> IF s = "cli" THEN "error" ELSE "empty"
    [] raw = "nobytes" ->
         IF s \in {"cli", "cli_8thMay", "cli_stable"} THEN "error" ELSE "empty"
    [] raw = "corrupt" -> "error"
    [] raw = "truncated" ->
         IF s \in {"cli_coloring", "cli_8thMay", "cli_stable"} THEN "error" ELSE "ok"
    [] OTHER -> "ok"

\* Seconds slept after failed attempt k with observed outcome out (0: no sleep).
Backoff(s, k, out) ==
  CASE s = "cli_27thMay" -> IF k < MAX_RETRY + 1 THEN 1 + k ELSE 0
    [] s = "cli_manual" -> IF k - 1 < MAX_RETRY THEN 1 + (k - 1) ELSE 0
    [] s = "cli" -> 1
    [] OTHER -> IF out = "error" THEN 1 ELSE 0

\* A retry that keeps the prompt it has.
NextTier_Same(s, t) == t

\* The prompt used after a failed attempt.
NextTier(s, t) == IF s \in MakeImageScripts THEN "generic" ELSE t

NoResult == [kind |-> "none", size |-> <<0, 0>>, fill |-> 0, flat |-> TRUE, lazy |-> FALSE]

\* A placeholder built at the page size, as the make_image scripts do.
Placeholder_PageSized(s) ==
  [kind |-> "placeholder", size |-> PAGE_SIZE(s), fill |-> PLACEHOLDER_GREY,
   flat |-> TRUE, lazy |-> FALSE]

\* The image returned when every attempt failed.
Placeholder(s) ==
  CASE s \in {"cli_27thMay", "cli_manual", "cli"} ->
         [kind |-> "placeholder", size |-> RAW_SIZE, fill |-> PLACEHOLDER_GREY,
          flat |-> TRUE, lazy |-> FALSE]
    [] s = "cli_coloring" ->
         [kind |-> "placeholder", size |-> RAW_SIZE, fill |-> COLORING_GREY,
          flat |-> TRUE, lazy |-> FALSE]
    [] OTHER ->
         [kind |-> "placeholder", size |-> PAGE_SIZE(s), fill |-> PLACEHOLDER_GREY,
          flat |-> FALSE, lazy |-> FALSE]

\* The image returned by a successful attempt.
Generated(s, raw, sz) ==
  [kind |-> "image",
   size |-> IF s \in MakeImageScripts THEN PAGE_SIZE(s) ELSE sz,
   fill |-> 0, flat |-> FALSE, lazy |-> (raw = "truncated")]

---------------------------------------------------------------------------
(* One run of a script *)

PageKinds == {"cover", "page", "end"}

SeqsUpTo(S, n) == UNION {[1..m -> S] : m \in 0..n}

\* Page records build_pdf can be handed: cli_manual's come from parse_spec
\* and carry a header kind; the other scripts only have story pages.
PageSeqs(s) ==
  IF s = "cli_manual" THEN SeqsUpTo(PageKinds, MaxPages) ELSE SeqsUpTo({"page"}, MaxPages)

\* Scripts that write a prompt-log file.
LogFileScripts == DumpScripts \cup {"cli_coloring"}

\* An entry left in the log file by an earlier run that used the same name.
OldEntry == [tag |-> -1, prompt |-> [page |-> -1, tier |-> "earlier run"]]
\* cli_coloring's "Theme: ..." heading.
ThemeHeader == [tag |-> -1, prompt |-> [page |-> 0, tier |-> "theme"]]

\* The process before its first statement: nothing called, nothing written,
\* the default SIGALRM handler.
Fresh ==
  /\ err = "none" /\ idx = 0
  /\ attempt = 1 /\ tier = "specific" /\ calls = 0
  /\ resp = "none" /\ nat = <<0, 0>> /\ exc = "none" /\ last = "none"
  /\ attempts = <<>> /\ result = NoResult
  /\ alarmPending = FALSE /\ handler = "SIG_DFL" /\ oldH = "SIG_DFL"
  /\ LOG_PROMPTS = <<>> /\ sent = {}
  /\ pdf = <<>> /\ doc = <<>> /\ docWritten = FALSE

RunInit ==
  /\ script \in Scripts
  /\ keysOk \in BOOLEAN
  /\ pages \in PageSeqs(script)
  /\ fileBefore \in (IF script \in LogFileScripts THEN BOOLEAN ELSE {FALSE})
  /\ pc = "start"
  /\ logFile = (IF fileBefore THEN <<OldEntry>> ELSE <<>>)
  /\ Fresh

\* The run's variables while a function is modelled on its own.
RunIdle ==
  /\ keysOk = TRUE /\ pages = <<>> /\ fileBefore = FALSE /\ logFile = <<>>
  /\ Fresh

\* The prompt of the current page in the current tier.
CurPrompt == [page |-> idx, tier |-> tier]

\* Entering a synthesizer call: its locals.
SynthReset ==
  /\ attempt' = 1 /\ tier' = "specific" /\ calls' = 0
  /\ resp' = "none" /\ nat' = <<0, 0>> /\ exc' = "none" /\ last' = "none"
  /\ attempts' = <<>> /\ result' = NoResult

\* An uncaught exception or sys.exit ends the process with reason why.
Crash(why) == pc' = "exit" /\ err' = why

\* A start that does not look at the keys.
Startup_NoKeyCheck ==
  /\ pc = "start"
  /\ pc' = "build"
  /\ UNCHANGED <<cfgVars, err, idx, synVars, sigVars, logVars, docVars>>

\* Module level: the keys are read, a missing one is sys.exit.
Startup ==
  /\ pc = "start"
  /\ IF keysOk THEN pc' = "build" /\ err' = err ELSE Crash("nokeys")
  /\ UNCHANGED <<cfgVars, idx, synVars, sigVars, logVars, docVars>>

\* build_pdf up to its page loop: the generated cover where the script has one.
BuildStart ==
  /\ pc = "build"
  /\ CASE script = "cli_27thMay" -> idx' = 0 /\ pc' = "dump" /\ SynthReset
       [] script = "cli" -> idx' = 0 /\ pc' = "im_top" /\ SynthReset
       [] script = "cli_manual" /\ pages = <<>> ->
            idx' = idx /\ pc' = "exit" /\ UNCHANGED synVars
       [] OTHER -> idx' = 1 /\ pc' = "page" /\ UNCHANGED synVars
  /\ UNCHANGED <<cfgVars, err, sigVars, logVars, docVars>>

\* A page loop that leaves out the last record.
LoopDone_OneShort(i, ps) == i >= Len(ps)

\* `for i, p in enumerate(pages, 1)` has run out of records.
LoopDone(i, ps) == i > Len(ps)

\* The scripts whose build_pdf generates a cover before the page loop.
CoverScripts == {"cli_27thMay", "cli"}

\* Head of the page loop and the construction of the page's prompt.  textOk:
\* the text-model call of cli (scene_prompt) and cli_coloring (gpt_subject)
\* answered; it is not guarded, so its error ends the run.
PageBegin(textOk) ==
  /\ pc = "page"
  /\ IF LoopDone(idx, pages)
       THEN /\ textOk
            /\ pc' = "output"
            /\ UNCHANGED <<err, synVars, LOG_PROMPTS>>
       ELSE CASE script \in DumpScripts ->
                   textOk /\ pc' = "dump" /\ SynthReset /\ UNCHANGED <<err, LOG_PROMPTS>>
              [] script = "cli" ->
                   IF textOk
                     THEN pc' = "im_top" /\ SynthReset /\ UNCHANGED <<err, LOG_PROMPTS>>
                     ELSE Crash("text") /\ UNCHANGED <<synVars, LOG_PROMPTS>>
              [] script = "cli_coloring" ->
                   IF textOk
                     THEN /\ pc' = "im_top" /\ SynthReset /\ err' = err
                          /\ LOG_PROMPTS' = Append(LOG_PROMPTS, [page |-> idx, tier |-> "specific"])
                     ELSE Crash("text") /\ UNCHANGED <<synVars, LOG_PROMPTS>>
              [] OTHER ->
                   textOk /\ pc' = "im_top" /\ SynthReset /\ UNCHANGED <<err, LOG_PROMPTS>>
  /\ UNCHANGED <<cfgVars, idx, sigVars, logFile, sent, docVars>>

\* The tag dump() is called with: "cover_prompt" (0) or f"page_{i}".
DumpTag ==
  IF idx = 0 THEN 0
  ELSE IF script = "cli_manual" /\ pages[idx] = "cover" THEN 0 ELSE idx

\* dump(tag, txt): open the log file for append, write one entry, close.
Dump ==
  /\ pc = "dump"
  /\ logFile' = Append(logFile, [tag |-> DumpTag, prompt |-> CurPrompt])
  /\ pc' = "im_top"
  /\ UNCHANGED <<cfgVars, err, idx, synVars, sigVars, LOG_PROMPTS, sent, docVars>>

---------------------------------------------------------------------------
(* The synthesizer: imagen / _imagen / make_image *)

\* Head of the retry loop; past its range the placeholder is returned.
ImagenLoop ==
  /\ pc = "im_top"
  /\ IF attempt <= MaxAttempts(script)
       THEN /\ pc' = (IF script = "cli_27thMay" THEN "st_enter" ELSE "call")
            /\ result' = result
       ELSE /\ pc' = "synth_done"
            /\ result' = Placeholder(script)
  /\ UNCHANGED <<cfgVars, err, idx, attempt, tier, calls, resp, nat, exc, last, attempts,
                 sigVars, logVars, docVars>>

\* soft_timeout before its yield: install _h, keep the old handler, arm.
SoftTimeoutEnter ==
  /\ pc = "st_enter"
  /\ oldH' = handler
  /\ handler' = "_h"
  /\ alarmPending' = TRUE
  /\ pc' = "call"
  /\ UNCHANGED <<cfgVars, err, idx, synVars, logVars, docVars>>

\* generate_images is called: the service receives the prompt.
CallIssue ==
  /\ pc = "call"
  /\ sent' = sent \cup {CurPrompt}
  /\ calls' = calls + 1
  /\ pc' = "wait"
  /\ UNCHANGED <<cfgVars, err, idx, attempt, tier, resp, nat, exc, last, attempts, result,
                 sigVars, logFile, LOG_PROMPTS, docVars>>

\* Where control goes when the call ends: soft_timeout's finally, or the
\* test of the answer.
AfterCall(s) == IF s = "cli_27thMay" THEN "st_cancel" ELSE "check"

\* The call returns o (an image of size sz when it carries one) or raises.
CallReturn(o, sz) ==
  /\ pc = "wait"
  /\ resp' = o
  /\ nat' = (IF o \in {"bytes", "truncated"} THEN sz ELSE <<0, 0>>)
  /\ exc' = (IF o = "raises" THEN "Error" ELSE "none")
  /\ pc' = AfterCall(script)
  /\ UNCHANGED <<cfgVars, err, idx, attempt, tier, calls, last, attempts, result,
                 sigVars, logVars, docVars>>

\* SIGALRM is delivered.  Python runs the handler between two bytecodes of
\* the main thread: _h raises TimeoutError wherever the program is.  The
\* alarm needs TIMEOUT_SEC to elapse, which only the blocking call provides,
\* so it is not delivered before the call is issued.
\*  - during the call: the with body raises, soft_timeout's finally runs;
\*  - inside the finally, before signal.alarm(0) has taken effect: the rest of
\*    the finally is skipped and TimeoutError leaves the with statement;
\*  - anywhere else (a stale alarm): an unguarded TimeoutError, or with the
\*    default handler the process is killed.
AlarmFire ==
  /\ alarmPending
  /\ pc \notin {"call", "exit"}
  /\ alarmPending' = FALSE
  /\ CASE pc = "wait" ->
            /\ exc' = "Timeout" /\ resp' = "none" /\ nat' = <<0, 0>>
            /\ pc' = "st_cancel" /\ err' = err
       [] pc = "st_cancel" ->
            /\ exc' = "Timeout" /\ resp' = resp /\ nat' = nat
            /\ pc' = "check" /\ err' = err
       [] OTHER ->
            /\ Crash(IF handler = "_h" THEN "stale_alarm" ELSE "killed")
            /\ UNCHANGED <<exc, resp, nat>>
  /\ UNCHANGED <<cfgVars, idx, attempt, tier, calls, last, attempts, result,
                 handler, oldH, logVars, docVars>>

\* soft_timeout's finally, first statement: signal.alarm(0).
SoftTimeoutCancel ==
  /\ pc = "st_cancel"
  /\ alarmPending' = FALSE
  /\ pc' = "st_restore"
  /\ UNCHANGED <<cfgVars, err, idx, synVars, handler, oldH, logVars, docVars>>

\* soft_timeout's finally, second statement: signal.signal(SIGALRM, old).
SoftTimeoutRestore ==
  /\ pc = "st_restore"
  /\ handler' = oldH
  /\ pc' = "check"
  /\ UNCHANGED <<cfgVars, err, idx, synVars, alarmPending, oldH, logVars, docVars>>

\* A try that lets TimeoutError through.
Caught_NoTimeout(s, out) == out \in {"empty", "error"}

\* The except clauses of the try: which observed failures they catch.
Caught(s, out) == out \in {"empty", "error", "timeout"}

\* After the call: return the image, or record the failure.
Check ==
  /\ pc = "check"
  /\ LET out == Observed(script, resp, exc) IN
       IF out = "ok"
         THEN /\ result' = Generated(script, resp, nat)
              /\ attempts' = Append(attempts,
                   [k |-> attempt, tier |-> tier, out |-> "ok", secs |-> 0])
              /\ pc' = "synth_done"
              /\ UNCHANGED <<last, err>>
         ELSE IF Caught(script, out)
           THEN /\ last' = out
                /\ pc' = "backoff"
                /\ UNCHANGED <<result, attempts, err>>
           ELSE /\ Crash("synth")
                /\ UNCHANGED <<result, attempts, last>>
  /\ exc' = "none" /\ resp' = "none" /\ nat' = <<0, 0>>
  /\ UNCHANGED <<cfgVars, idx, attempt, tier, calls,
                 sigVars, logVars, docVars>>

\* The rest of a failed iteration: the log line, time.sleep where the code
\* sleeps, the fallback prompt where the code has one, the next iteration.
Sleep ==
  /\ pc = "backoff"
  /\ attempts' = Append(attempts,
       [k |-> attempt, tier |-> tier, out |-> last,
        secs |-> Backoff(script, attempt, last)])
  /\ tier' = NextTier(script, tier)
  /\ attempt' = attempt + 1
  /\ last' = "none"
  /\ pc' = "im_top"
  /\ UNCHANGED <<cfgVars, err, idx, calls, resp, nat, exc, result,
                 sigVars, logVars, docVars>>

---------------------------------------------------------------------------
(* Compositing, assembly, output *)

\* The scripts that decode the returned image outside the synthesizer's try
\* (prep / _prep: convert, resize, resize).
PrepScripts == {"cli_27thMay", "cli_manual", "cli"}

\* A resize that was left out: the image goes to the PDF in its own size.
PageImage_NoResize(s, img) == img

\* The page image handed to the PDF: resized to the page size (prep, _prep,
\* .resize(PAGE_SIZE)); make_image already returns page-sized images.
PageImage(s, img) == [img EXCEPT !.size = PAGE_SIZE(s)]

\* A page put in front of the pages already there.
AddPage_InFront(p, rec) == <<rec>> \o p

\* pdf.add_page(); pdf.image(...): the page goes after the pages already there.
AddPage(p, rec) == Append(p, rec)

ThisKind ==
  IF idx = 0 THEN "cover"
  ELSE IF script = "cli_manual" THEN pages[idx] ELSE "page"

\* prep + overlay/make_cover/add_pageno + pdf.add_page/pdf.image.  The
\* synthesizer's frame is gone once its result has been consumed.
Compose ==
  /\ pc = "synth_done"
  /\ IF result.lazy /\ script \in PrepScripts
       THEN Crash("prep") /\ UNCHANGED <<idx, pdf>>
       ELSE /\ pdf' = AddPage(pdf, [ord |-> idx, kind |-> ThisKind, src |-> result.kind,
                                   size |-> PageImage(script, result).size])
            /\ idx' = idx + 1
            /\ pc' = "page"
            /\ err' = err
  /\ SynthReset
  /\ UNCHANGED <<cfgVars, sigVars, logVars, doc, docWritten>>

\* pdf.output(...): the document is written, once, after the page loop.
Output ==
  /\ pc = "output"
  /\ doc' = pdf
  /\ docWritten' = TRUE
  /\ pc' = (IF script = "cli_coloring" THEN "writelog" ELSE "exit")
  /\ UNCHANGED <<cfgVars, err, idx, synVars, sigVars, logVars, pdf>>

\* cli_coloring: open(txt_path, "w") and write the heading and LOG_PROMPTS.
WriteLog ==
  /\ pc = "writelog"
  /\ logFile' = <<ThemeHeader>> \o [i \in 1..Len(LOG_PROMPTS) |->
                                     [tag |-> -1, prompt |-> LOG_PROMPTS[i]]]
  /\ pc' = "exit"
  /\ UNCHANGED <<cfgVars, err, idx, synVars, sigVars, LOG_PROMPTS, sent, docVars>>

\* The user interrupts the run (KeyboardInterrupt is no Exception: nothing
\* catches it); the process ends and its alarm with it.
Interrupt ==
  /\ pc \notin {"start", "exit"}
  /\ pc' = "exit"
  /\ err' = "interrupt"
  /\ alarmPending' = FALSE
  /\ SynthReset
  /\ UNCHANGED <<cfgVars, idx, handler, oldH, logVars, docVars>>

Next ==
  \/ Startup
  \/ BuildStart
  \/ \E textOk \in BOOLEAN : PageBegin(textOk)
  \/ Dump
  \/ ImagenLoop
  \/ SoftTimeoutEnter
  \/ CallIssue
  \/ \E o \in ServiceOutcomes, sz \in NativeSizes : CallReturn(o, sz)
  \/ AlarmFire
  \/ SoftTimeoutCancel
  \/ SoftTimeoutRestore
  \/ Check
  \/ Sleep
  \/ Compose
  \/ Output
  \/ WriteLog
  \/ Interrupt

NoLayIn == [bw |-> 0, bh |-> 0, bottom |-> FALSE, banner |-> FALSE]
NoLayOut == [done |-> FALSE, pref |-> <<0, 0, 0, 0>>, box |-> <<0, 0, 0, 0>>]

\* The variables of the caption layout, while a run is modelled.
LayIdle == layIn = NoLayIn /\ layOut = NoLayOut
WrapIdle == words = <<>> /\ lines = <<>>

\* make_cover not called.
NoCover ==
  [title |-> [n |-> 0, wide |-> FALSE], size |-> 0, font |-> 0, chars |-> 0,
   nlines |-> 0, w |-> 0, h |-> 0, fit |-> FALSE, text |-> <<0, 0, 0, 0>>]
CoverIdle == cover = NoCover

\* No image object exists, nothing composited.
NoSurf ==
  [heap |-> <<>>, arg |-> 0, img |-> 0, ret |-> 0, before |-> {}, caption |-> "none"]
SurfIdle == surf = NoSurf

\* parse_spec not called.
NoParse == [text |-> <<>>, i |-> 0, pages |-> <<>>, cur |-> <<>>, mode |-> "None"]
ParseIdle == parse = NoParse

FnIdle == CoverIdle /\ SurfIdle /\ ParseIdle

Init == RunInit /\ LayIdle /\ WrapIdle /\ FnIdle

Spec == Init /\ [][Next]_vars

---------------------------------------------------------------------------
(* overlay: the caption box *)

CAPTION_PCT == 10
FLOOR_GAP == 20
LEFT_MARGIN == 40
PAD == 24
MANUAL_PAD == 20
MANUAL_MARGIN == 36
MANUAL_TOP == 20
MANUAL_BANNER_TOP == 36
CLI_SIDE_PAD == 36
CLI_VERT_PAD == 20
CLI_EDGE == 12

(* Bounds: the measured block sizes tried, as multiples of a step *)
HeightStep == 25
MaxHeightSteps == 36
WidthStep == 100
MaxWidthSteps == 6

Max(a, b) == IF a >= b THEN a ELSE b
Min(a, b) == IF a <= b THEN a ELSE b

\* The scripts whose overlay computes a caption box from the measured text.
OverlayScripts == {"cli_27thMay", "cli_manual", "cli"}

\* txt_wh(d, wrap, FONT_BODY): the rendered size of the wrapped caption.  It
\* is the font's measurement of the text and is taken as an input.
BlockHeights == {k * HeightStep : k \in 0..MaxHeightSteps}
BlockWidths == {k * WidthStep : k \in 0..MaxWidthSteps}

\* The inputs of overlay: the block size, and where the script draws one,
\* the random choice (bottom) and the top_banner argument (banner).
LayInputs(s) ==
  [bw : BlockWidths, bh : BlockHeights,
   bottom : (IF s = "cli_27thMay" THEN {FALSE} ELSE BOOLEAN),
   banner : (IF s = "cli_manual" THEN BOOLEAN ELSE {FALSE})]
  \ {in \in [bw : BlockWidths, bh : BlockHeights, bottom : BOOLEAN, banner : BOOLEAN] :
       in.banner /\ in.bottom}

\* int(H * CAPTION_PCT / 100)
ReserveH(H) == (H * CAPTION_PCT) \div 100

\* A box whose bottom is cut at H - floor_gap where it should be slid up.
Box27thMay_Clamped(W, H, bw, bh) ==
  LET reserve_h == (H * CAPTION_PCT) \div 100
      band_h == bh + 2 * PAD
      top0 == (H - reserve_h) + (IF reserve_h - band_h >= 0 THEN (reserve_h - band_h) \div 2 ELSE 0)
      p == <<LEFT_MARGIN, top0, W - LEFT_MARGIN, top0 + band_h>>
  IN [done |-> TRUE, pref |-> p,
      box |-> <<LEFT_MARGIN, top0, W - LEFT_MARGIN,
                IF top0 + band_h > H - FLOOR_GAP THEN H - FLOOR_GAP ELSE top0 + band_h>>]

\* cli_27thMay overlay: the box centred in the reserved strip (pref), slid up
\* when its bottom would pass H - floor_gap (box).  Boxes are
\* <<left, top, right, bottom>>.
Box27thMay(W, H, bw, bh) ==
  LET reserve_h == ReserveH(H)
      band_top == H - reserve_h
      band_h == bh + 2 * PAD
      top0 == band_top + Max(0, (reserve_h - band_h) \div 2)
      top == IF top0 + band_h + FLOOR_GAP > H
               THEN Max(0, H - band_h - FLOOR_GAP)
               ELSE top0
  IN [done |-> TRUE,
      pref |-> <<LEFT_MARGIN, top0, W - LEFT_MARGIN, top0 + band_h>>,
      box |-> <<LEFT_MARGIN, top, W - LEFT_MARGIN, top + band_h>>]

\* cli_manual overlay: a centred cloud at the top banner, or at a random one
\* of the top and bottom anchors.  pref is the cloud centred around the text,
\* (W - bw)//2 - pad wide bw + 2*pad, before max and min bring its edges to
\* the side margins.
BoxManual(W, H, bw, bh, banner, bottom) ==
  LET left0 == (W - bw) \div 2 - MANUAL_PAD
      left == Max(MANUAL_MARGIN, left0)
      right == Min(W - MANUAL_MARGIN, left + bw + 2 * MANUAL_PAD)
      top == IF banner THEN MANUAL_BANNER_TOP
             ELSE IF bottom THEN H - bh - 2 * MANUAL_PAD - MANUAL_TOP ELSE MANUAL_TOP
      bot == top + bh + 2 * MANUAL_PAD
  IN [done |-> TRUE,
      pref |-> <<left0, top, left0 + bw + 2 * MANUAL_PAD, bot>>,
      box |-> <<left, top, right, bot>>]

\* cli overlay: a card at a random one of the top and bottom edges.
BoxCli(W, H, bw, bh, bottom) ==
  LET panel_w == Min(bw + 2 * CLI_SIDE_PAD, W - 2 * CLI_SIDE_PAD)
      card_h == CLI_VERT_PAD + bh + CLI_VERT_PAD
      top == IF bottom THEN H - card_h - CLI_EDGE ELSE CLI_EDGE
      b == <<CLI_SIDE_PAD, top, CLI_SIDE_PAD + panel_w, top + card_h>>
  IN [done |-> TRUE, pref |-> b, box |-> b]

\* overlay is called on the prepared page image: W, H = PAGE_SIZE.
SurfaceW == PAGE_SIZE(script)[1]
SurfaceH == PAGE_SIZE(script)[2]

LayoutInit ==
  /\ script \in OverlayScripts
  /\ pc = "layout"
  /\ layIn \in LayInputs(script)
  /\ layOut = NoLayOut
  /\ WrapIdle
  /\ FnIdle
  /\ RunIdle

Overlay27thMay ==
  /\ pc = "layout" /\ script = "cli_27thMay"
  /\ layOut' = Box27thMay(SurfaceW, SurfaceH, layIn.bw, layIn.bh)
  /\ pc' = "laid_out"
  /\ UNCHANGED <<runState, layIn, wrapVars, fnVars>>

OverlayManual ==
  /\ pc = "layout" /\ script = "cli_manual"
  /\ layOut' = BoxManual(SurfaceW, SurfaceH, layIn.bw, layIn.bh, layIn.banner, layIn.bottom)
  /\ pc' = "laid_out"
  /\ UNCHANGED <<runState, layIn, wrapVars, fnVars>>

OverlayCli ==
  /\ pc = "layout" /\ script = "cli"
  /\ layOut' = BoxCli(SurfaceW, SurfaceH, layIn.bw, layIn.bh, layIn.bottom)
  /\ pc' = "laid_out"
  /\ UNCHANGED <<runState, layIn, wrapVars, fnVars>>

LayoutNext == Overlay27thMay \/ OverlayManual \/ OverlayCli

LayoutSpec == LayoutInit /\ [][LayoutNext]_vars

---------------------------------------------------------------------------
(* overlay of cli_27thMay: the pixel-measured wrapping *)

(* Bounds *)
MaxWords == 4
SpaceWidth == 6

\* usable_w = W - 2*left_margin - 2*pad
UsableW(W) == W - 2 * LEFT_MARGIN - 2 * PAD

\* Rendered widths of the words tried: short words, a word that just fits
\* the usable width of the page (467), and a word wider than it.
WordWidths == {120, 230, 467, 480}

RECURSIVE SumWidths(_)
SumWidths(ws) == IF ws = <<>> THEN 0 ELSE Head(ws) + SumWidths(Tail(ws))

\* d.textlength(test, FONT_BODY) of words joined by single spaces: the widths
\* of the words and of the spaces between them.
TextLength(line) ==
  IF line = <<>> THEN 0 ELSE SumWidths(line) + SpaceWidth * (Len(line) - 1)

\* A loop that, on overflow, closes the line and starts an empty one: the
\* word that did not fit is lost.
RECURSIVE WrapLoop_DropsWord(_, _, _, _, _)
WrapLoop_DropsWord(ws, i, ls, line, usable_w) ==
  IF i > Len(ws)
    THEN IF line # <<>> THEN Append(ls, line) ELSE ls
    ELSE LET test == Append(line, ws[i]) IN
         IF TextLength(test) <= usable_w
           THEN WrapLoop_DropsWord(ws, i + 1, ls, test, usable_w)
           ELSE WrapLoop_DropsWord(ws, i + 1, IF line # <<>> THEN Append(ls, line) ELSE ls,
                                   <<>>, usable_w)

\* The for loop over the words, from word i on, with the lines closed so far
\* (ls) and the line being filled (line, empty for "").
RECURSIVE WrapLoop(_, _, _, _, _)
WrapLoop(ws, i, ls, line, usable_w) ==
  IF i > Len(ws)
    THEN IF line # <<>> THEN Append(ls, line) ELSE ls
    ELSE LET test == Append(line, ws[i]) IN
         IF TextLength(test) <= usable_w
           THEN WrapLoop(ws, i + 1, ls, test, usable_w)
           ELSE WrapLoop(ws, i + 1, IF line # <<>> THEN Append(ls, line) ELSE ls,
                         <<ws[i]>>, usable_w)

WrapLines(ws, W) == WrapLoop(ws, 1, <<>>, <<>>, UsableW(W))

WrapInit ==
  /\ script = "cli_27thMay"
  /\ pc = "wrap"
  /\ words \in SeqsUpTo(WordWidths, MaxWords)
  /\ lines = <<>>
  /\ LayIdle
  /\ FnIdle
  /\ RunIdle

WrapCaption ==
  /\ pc = "wrap"
  /\ lines' = WrapLines(words, SurfaceW)
  /\ pc' = "wrapped"
  /\ UNCHANGED <<runState, layVars, words, fnVars>>

WrapNext == WrapCaption

WrapSpec == WrapInit /\ [][WrapNext]_vars

---------------------------------------------------------------------------
(* make_cover of cli: the auto-fit title *)

COVER_MAX_PT == 48
COVER_MIN_PT == 20
COVER_STEP == 2
COVER_BANNER_H == 180
COVER_BANNER_SLACK == 40
COVER_SIDE_PAD == 60
COVER_LINE_SPACING == 8
TEXT_SPACING == 4

(* Bounds: the titles tried are n words of TitleWordChars characters *)
MaxTitleWords == 26
TitleWordChars == 5

\* A title: its number of words, and whether it is set in the widest glyphs
\* of the face (wider than "M") or in glyphs of average width.
Titles == [n : 0..MaxTitleWords, wide : BOOLEAN]

\* font.getlength("M") at a font size: one em.
MLength(size) == size
\* Advance of one glyph of the title at a font size.
GlyphLength(t, size) == IF t.wide THEN (11 * size) \div 10 ELSE (7 * size) \div 10
\* Height of one line of text at a font size.
LineHeight(size) == size

\* chars = int((W - 2*COVER_SIDE_PAD) / font.getlength("M")), then max(1, chars)
CoverChars(W, size) == Max(1, (W - 2 * COVER_SIDE_PAD) \div MLength(size))

\* textwrap.fill(title, width): words of TitleWordChars characters joined by
\* single spaces, as many whole words on a line as the width takes; a word
\* longer than the width is broken into pieces of the width.
WordsPerLine(width) == (width + 1) \div (TitleWordChars + 1)
CeilDiv(a, b) == (a + b - 1) \div b
FillLines(t, width) ==
  IF t.n = 0 THEN 0
  ELSE IF WordsPerLine(width) >= 1 THEN CeilDiv(t.n, WordsPerLine(width))
  ELSE t.n * CeilDiv(TitleWordChars, width)
\* Characters of the longest line of the filled title.
FillWidest(t, width) ==
  IF t.n = 0 THEN 0
  ELSE IF WordsPerLine(width) >= 1
    THEN Min(t.n, WordsPerLine(width)) * (TitleWordChars + 1) - 1
  ELSE Min(TitleWordChars, width)

\* text_size(draw, wrapped, font): the bounding box of the multi-line text
\* (lines TEXT_SPACING apart).
CoverTextW(t, W, size) == FillWidest(t, CoverChars(W, size)) * GlyphLength(t, size)
CoverTextH(t, W, size) ==
  LET n == FillLines(t, CoverChars(W, size))
  IN IF n = 0 THEN 0 ELSE n * LineHeight(size) + TEXT_SPACING * (n - 1)

\* h <= COVER_BANNER_H - 40 and w <= W - 2*COVER_SIDE_PAD
CoverFits(t, W, size) ==
  /\ CoverTextH(t, W, size) <= COVER_BANNER_H - COVER_BANNER_SLACK
  /\ CoverTextW(t, W, size) <= W - 2 * COVER_SIDE_PAD

\* The lines as drawn: from y = (COVER_BANNER_H - h)//2 down, each centred,
\* COVER_LINE_SPACING apart.  <<left, top, right, bottom>> of the drawn text.
CoverDrawn(c, W) ==
  LET y == (COVER_BANNER_H - c.h) \div 2
      lh == LineHeight(c.font)
      n == Max(1, c.nlines)
      left == (W - c.w) \div 2
  IN <<left, y, left + c.w,
       y + (IF c.nlines = 0 THEN 0 ELSE n * lh + COVER_LINE_SPACING * (n - 1))>>

CoverInit ==
  /\ script = "cli"
  /\ pc = "cv_loop"
  /\ \E t \in Titles : cover = [NoCover EXCEPT !.title = t, !.size = COVER_MAX_PT]
  /\ LayIdle /\ WrapIdle /\ SurfIdle /\ ParseIdle
  /\ RunIdle

\* One pass of `while size >= COVER_MIN_PT`: load the font, wrap, measure,
\* break when the text fits, else shrink.
CoverTry ==
  /\ pc = "cv_loop" /\ cover.size >= COVER_MIN_PT
  /\ LET t == cover.title
         fits == CoverFits(t, SurfaceW, cover.size)
     IN /\ cover' = [cover EXCEPT
               !.font = cover.size,
               !.chars = CoverChars(SurfaceW, cover.size),
               !.nlines = FillLines(t, CoverChars(SurfaceW, cover.size)),
               !.w = CoverTextW(t, SurfaceW, cover.size),
               !.h = CoverTextH(t, SurfaceW, cover.size),
               !.fit = fits,
               !.size = IF fits THEN cover.size ELSE cover.size - COVER_STEP]
        /\ pc' = IF fits THEN "cv_draw" ELSE "cv_loop"
  /\ UNCHANGED <<runState, layVars, wrapVars, surf, parse>>

\* The loop condition fails: no size fitted.
CoverGiveUp ==
  /\ pc = "cv_loop" /\ cover.size < COVER_MIN_PT
  /\ pc' = "cv_draw"
  /\ UNCHANGED <<runState, layVars, wrapVars, fnVars>>

\* The banner and the title lines are drawn with the font, wrapped text and
\* height the loop left behind.
CoverDraw ==
  /\ pc = "cv_draw"
  /\ cover' = [cover EXCEPT !.text = CoverDrawn(cover, SurfaceW)]
  /\ pc' = "cv_done"
  /\ UNCHANGED <<runState, layVars, wrapVars, surf, parse>>

CoverNext == CoverTry \/ CoverGiveUp \/ CoverDraw

CoverSpec == CoverInit /\ [][CoverNext]_vars

---------------------------------------------------------------------------
(* Compositing: overlay and add_pageno on image objects *)

\* The scripts whose overlay begins with img = img.convert("RGBA").
ConvertScripts == {"cli_27thMay", "cli_manual", "cli"}

\* What the caller hands over: the picture (a generated image or the
\* placeholder) and the caption or page number to put on it.
Pictures == {"image", "placeholder"}
Captions == {"empty", "short", "long"}

\* An image object: its mode and what has been drawn on it.
NewImage(mode, marks) == [mode |-> mode, marks |-> marks]

\* A convert that hands back the object it was called on.
Converted_Self(obj, fresh) == obj

\* img.convert(mode) makes a new image object (a copy also when the mode is
\* the same); fresh is the identity of that object.
Converted(obj, fresh) == fresh

\* The heap after x = obj.convert(mode), x being the object named id.
ConvertHeap(h, obj, id, mode) ==
  IF id = Len(h) + 1
    THEN Append(h, NewImage(mode, h[obj].marks))
    ELSE [h EXCEPT ![id].mode = mode]

\* Drawing on the object named id.
DrawOn(h, id, mark) == [h EXCEPT ![id].marks = h[id].marks \cup {mark}]

SurfInit ==
  /\ script \in Scripts
  /\ pc = "comp"
  /\ \E pic \in Pictures, cap \in Captions :
       surf = [heap |-> <<NewImage("RGB", {pic})>>, arg |-> 1, img |-> 1, ret |-> 0,
               before |-> {pic}, caption |-> cap]
  /\ LayIdle /\ WrapIdle /\ CoverIdle /\ ParseIdle
  /\ RunIdle

\* overlay of cli_27thMay, cli_manual and cli: img = img.convert("RGBA").
OverlayConvert ==
  /\ pc = "comp" /\ script \in ConvertScripts
  /\ LET id == Converted(surf.img, Len(surf.heap) + 1)
     IN surf' = [surf EXCEPT !.heap = ConvertHeap(surf.heap, surf.img, id, "RGBA"),
                             !.img = id]
  /\ pc' = "comp_draw"
  /\ UNCHANGED <<runState, layVars, wrapVars, cover, parse>>

\* ... the bubble is composited onto img and the text drawn on it.
OverlayDraw ==
  /\ pc = "comp_draw"
  /\ surf' = [surf EXCEPT !.heap = DrawOn(surf.heap, surf.img, "caption")]
  /\ pc' = "comp_ret"
  /\ UNCHANGED <<runState, layVars, wrapVars, cover, parse>>

\* ... return img.convert("RGB").
OverlayReturn ==
  /\ pc = "comp_ret"
  /\ LET id == Converted(surf.img, Len(surf.heap) + 1)
     IN surf' = [surf EXCEPT !.heap = ConvertHeap(surf.heap, surf.img, id, "RGB"),
                             !.ret = id]
  /\ pc' = "comp_done"
  /\ UNCHANGED <<runState, layVars, wrapVars, cover, parse>>

\* overlay of cli_8thMay and cli_stable: img.paste(mask, ...), the texts
\* drawn on ImageDraw.Draw(img), return img.
OverlayPaste ==
  /\ pc = "comp" /\ script \in MakeImageScripts
  /\ surf' = [surf EXCEPT !.heap = DrawOn(surf.heap, surf.img, "caption"),
                          !.ret = surf.img]
  /\ pc' = "comp_done"
  /\ UNCHANGED <<runState, layVars, wrapVars, cover, parse>>

\* add_pageno of cli_coloring: d = ImageDraw.Draw(img); d.text(...); no return.
AddPageno ==
  /\ pc = "comp" /\ script = "cli_coloring"
  /\ surf' = [surf EXCEPT !.heap = DrawOn(surf.heap, surf.img, "pageno")]
  /\ pc' = "comp_done"
  /\ UNCHANGED <<runState, layVars, wrapVars, cover, parse>>

SurfNext == OverlayConvert \/ OverlayDraw \/ OverlayReturn \/ OverlayPaste \/ AddPageno

SurfSpec == SurfInit /\ [][SurfNext]_vars

---------------------------------------------------------------------------
(* parse_spec of cli_manual *)

(* Bound: lines of the specification text *)
MaxLines == 4

\* The lines of a specification text, by the tests parse_spec makes on them,
\* in its order, and what they carry:
\*  hdr      matches PAGE_HDR
\*  img      contains "A4 Image Prompt"; body: the text after its colon
\*  cap      contains "Embedded Text" or the word "Text", and a colon; body:
\*           the text after the colon
\*  capbare  contains the word "Text" and no colon
\*  plain    any other line with text on it
\*  blank    an empty line
\* A body of "" is no text.
SpecLines ==
  {[k |-> "hdr", body |-> ""], [k |-> "blank", body |-> ""],
   [k |-> "capbare", body |-> "w"]}
  \cup [k : {"img"}, body : {"", "p"}]
  \cup [k : {"cap"}, body : {"", "c"}]
  \cup [k : {"plain"}, body : {"a", "b"}]

\* s.strip() as the start of a field: nothing for an empty string.
Stripped(body) == IF body = "" THEN <<>> ELSE <<body>>

\* field += " " + ln.strip()
Accumulated(field, body) == field \o <<"sp">> \o Stripped(body)

\* {"hdr": ..., "title": ..., "img": "", "cap": ""}; ord is the position of
\* the header line.
NewPage(ord) == [ord |-> ord, img |-> <<>>, cap |-> <<>>]

ParseInit ==
  /\ script = "cli_manual"
  /\ pc = "parse"
  /\ \E t \in SeqsUpTo(SpecLines, MaxLines) : parse = [NoParse EXCEPT !.text = t, !.i = 1]
  /\ LayIdle /\ WrapIdle /\ CoverIdle /\ SurfIdle
  /\ RunIdle

\* One pass of `for ln in text.splitlines()`.
ParseLine ==
  /\ pc = "parse" /\ parse.i <= Len(parse.text)
  /\ LET ln == parse.text[parse.i]
         cur == parse.cur
         step == [parse EXCEPT !.i = parse.i + 1]
     IN CASE ln.k = "hdr" ->
               /\ parse' = [step EXCEPT !.pages = parse.pages \o cur,
                                        !.cur = <<NewPage(parse.i)>>,
                                        !.mode = "None"]
               /\ pc' = pc
          [] ln.k = "img" ->
               IF cur = <<>>
                 THEN parse' = parse /\ pc' = "parse_err"
                 ELSE /\ parse' = [step EXCEPT !.cur[1].img = Stripped(ln.body),
                                               !.mode = "img"]
                      /\ pc' = pc
          [] ln.k = "cap" ->
               IF cur = <<>>
                 THEN parse' = parse /\ pc' = "parse_err"
                 ELSE /\ parse' = [step EXCEPT !.cur[1].cap = Stripped(ln.body),
                                               !.mode = "cap"]
                      /\ pc' = pc
          [] ln.k = "capbare" ->
               parse' = parse /\ pc' = "parse_err"
          [] OTHER ->
               /\ parse' =
                    IF cur # <<>> /\ parse.mode = "img"
                      THEN [step EXCEPT !.cur[1].img = Accumulated(cur[1].img, ln.body)]
                    ELSE IF cur # <<>> /\ parse.mode = "cap"
                      THEN [step EXCEPT !.cur[1].cap = Accumulated(cur[1].cap, ln.body)]
                    ELSE step
               /\ pc' = pc
  /\ UNCHANGED <<runState, layVars, wrapVars, cover, surf>>

\* After the loop: the last page is appended and the pages returned.
ParseReturn ==
  /\ pc = "parse" /\ parse.i > Len(parse.text)
  /\ parse' = [parse EXCEPT !.pages = parse.pages \o parse.cur, !.cur = <<>>]
  /\ pc' = "parsed"
  /\ UNCHANGED <<runState, layVars, wrapVars, cover, surf>>

ParseNext == ParseLine \/ ParseReturn

ParseSpec == ParseInit /\ [][ParseNext]_vars

---------------------------------------------------------------------------
\* Steps of the program itself, and the answer of the image service.  A
\* sequential program keeps running, the service answers every call, and a
\* scheduled alarm is delivered; nothing obliges the user to interrupt.
ProgramStep ==
  \/ Startup \/ BuildStart \/ (\E textOk \in BOOLEAN : PageBegin(textOk)) \/ Dump
  \/ ImagenLoop \/ SoftTimeoutEnter \/ CallIssue
  \/ SoftTimeoutCancel \/ SoftTimeoutRestore \/ Check \/ Sleep
  \/ Compose \/ Output \/ WriteLog

ServiceStep == \E o \in ServiceOutcomes, sz \in NativeSizes : CallReturn(o, sz)

FairSpec == Spec /\ WF_vars(ProgramStep) /\ WF_vars(ServiceStep)

---------------------------------------------------------------------------
(* Claims *)

SynthPcs == {"im_top", "st_enter", "call", "wait", "st_cancel", "st_restore", "check", "backoff"}

\* SynthesisResult.degraded of the specification: the placeholder, or an
\* image obtained from a fallback prompt.
Degraded == result.kind = "placeholder" \/ tier # "specific"

FirstSuccess(k) ==
  /\ k \in 1..Len(attempts)
  /\ attempts[k].out = "ok"
  /\ \A j \in 1..(k - 1) : attempts[j].out # "ok"

IsPrefix(a, b) == Len(a) <= Len(b) /\ \A i \in 1..Len(a) : a[i] = b[i]

AllFailed == \A k \in 1..Len(attempts) : attempts[k].out # "ok"

\* C1: imagen/_imagen stops calling the service at its first successful
\* attempt: when the first success is attempt k, exactly k calls were made and
\* the result is not degraded; never more than 1 tier x (MAX_RETRY + 1) calls
\* are made for one page.
C1_StopsAtFirstSuccess ==
  script \in ImagenScripts =>
    /\ calls <= 1 * (MAX_RETRY + 1)
    /\ pc = "synth_done" =>
         \A k \in 1..Len(attempts) : FirstSuccess(k) => (calls = k /\ ~Degraded)

\* C1 witness: cli_27thMay's imagen returned at a second attempt that
\* succeeded after a failed first one.
C1_Witness ==
  /\ script = "cli_27thMay" /\ pc = "synth_done"
  /\ Len(attempts) = 2 /\ attempts[1].out # "ok" /\ attempts[2].out = "ok"
  /\ calls = 2 /\ result.kind = "image"

C3_PlaceholderWhenExhausted ==
  (script \in ImagenScripts /\ pc = "synth_done" /\ AllFailed) =>
    /\ Degraded
    /\ result.kind = "placeholder"
    /\ result.size = <<768, 1024>>
    /\ result.fill = (IF script = "cli_coloring" THEN 230 ELSE 220)
    /\ result.flat

\* C3 witness: the service answered every attempt with an empty result and
\* imagen returned the placeholder.
C3_Witness ==
  /\ script = "cli_27thMay" /\ pc = "synth_done"
  /\ Len(attempts) = MAX_RETRY + 1
  /\ \A k \in 1..Len(attempts) : attempts[k].out = "empty"
  /\ result.kind = "placeholder"

\* C4: every failed attempt (empty, undecodable bytes, timeout, remote error)
\* is counted once and handled like a remote error at the same attempt (same
\* backoff, same progression), and undecodable bytes are never returned as a
\* success.  Stated for the two synthesizers the claim names.
C4_FailuresHandledAlike ==
  script \in {"cli_27thMay", "cli_coloring"} =>
    /\ \A k \in 1..Len(attempts) :
         attempts[k].out # "ok" => attempts[k].secs = Backoff(script, k, "error")
    /\ pc = "im_top" => Len(attempts) = calls
    /\ ~result.lazy

\* C5: outside a timeout-guarded call no alarm is pending and the SIGALRM
\* handler is the one that was installed before the call.
C5_AlarmCleared ==
  (script = "cli_27thMay" /\ pc \notin {"call", "wait", "st_cancel", "st_restore", "exit"}) =>
    (~alarmPending /\ handler = oldH)

\* C6: every request the image service has received has its entry in the
\* log file, so the entry was written before the call was issued.  Stated for
\* the three scripts the claim names.
C6_LoggedBeforeCall ==
  script \in {"cli_27thMay", "cli_manual", "cli_coloring"} =>
    \A p \in sent : \E i \in 1..Len(logFile) : logFile[i].prompt = p

\* C7: the log file only grows: every step leaves its earlier content as a
\* prefix of its new content.
C7_AppendOnly ==
  [][(script \in LogFileScripts) => IsPrefix(logFile, logFile')]_vars

\* C8: every prompt sent to the image service, the fallback prompt included,
\* has a log entry tagged with the ordinal of its page.  Stated for the three
\* scripts the claim names.
C8_EveryPromptLogged ==
  script \in {"cli_8thMay", "cli_27thMay", "cli_manual"} =>
    \A p \in sent :
      \E i \in 1..Len(logFile) : logFile[i].prompt = p /\ logFile[i].tag = p.page

\* The margins the caption box is to keep, as each overlay writes them.
FloorGap(s) ==
  CASE s = "cli_27thMay" -> FLOOR_GAP [] s = "cli_manual" -> MANUAL_TOP [] OTHER -> CLI_EDGE
SideMargin(s) ==
  CASE s = "cli_27thMay" -> LEFT_MARGIN [] s = "cli_manual" -> MANUAL_MARGIN
    [] OTHER -> CLI_SIDE_PAD

\* C9: for every measured caption block the box overlay draws has
\* top >= 0, bottom <= H - floor_gap, left >= side_margin and
\* right <= W - side_margin.
C9_BoxOnSurface ==
  layOut.done =>
    /\ layOut.box[2] >= 0
    /\ layOut.box[4] <= SurfaceH - FloorGap(script)
    /\ layOut.box[1] >= SideMargin(script)
    /\ layOut.box[3] <= SurfaceW - SideMargin(script)

\* C10: no line of the wrapped caption measures more than the usable width.
C10_LinesFit ==
  pc = "wrapped" =>
    \A i \in 1..Len(lines) : TextLength(lines[i]) <= UsableW(SurfaceW)

\* C11: the box the fixed-band overlay (cli_27thMay) draws lies inside the
\* reserved bottom band, box.top >= H - reserve_h.
C11_BoxInBand ==
  (script = "cli_27thMay" /\ layOut.done) =>
    layOut.box[2] >= SurfaceH - ReserveH(SurfaceH)

CompleteLen == Len(pages) + (IF script \in CoverScripts THEN 1 ELSE 0)

\* C13: a run writes a document with a page for every page record (and the
\* cover where the script has one), or it writes no document; also when it is
\* ended by an error or an interrupt inside the page loop.
C13_CompleteOrNothing ==
  /\ docWritten => (doc = pdf /\ Len(doc) = CompleteLen)
  /\ ~docWritten => doc = <<>>
  /\ (err # "none" /\ Len(pdf) < CompleteLen) => ~docWritten

\* A complete document of the largest size, with a placeholder page in it,
\* has been written.
C13_Witness ==
  /\ docWritten /\ Len(doc) = MaxPages + 1
  /\ \E k \in 1..Len(doc) : doc[k].src = "placeholder"

\* Ordinal of the first page the script adds: 0 where it generates a cover.
FirstOrd == IF script \in CoverScripts THEN 0 ELSE 1

\* C14: pages are produced one at a time in input order: while page idx is
\* being synthesized exactly the pages before it have been added, and the
\* k-th page added is made from the k-th page record.
C14_InputOrder ==
  /\ \A k \in 1..Len(pdf) :
       /\ pdf[k].ord = FirstOrd + k - 1
       /\ (pdf[k].ord >= 1 /\ script = "cli_manual") => pdf[k].kind = pages[pdf[k].ord]
  /\ (pc \in SynthPcs \cup {"dump", "synth_done"}) => Len(pdf) = idx - FirstOrd
  /\ docWritten => doc = pdf

\* The last record of a longest input is being synthesized after the pages
\* before it were added.
C14_Witness ==
  /\ pc = "call" /\ idx = MaxPages /\ Len(pdf) = MaxPages - FirstOrd
  /\ Len(pages) = MaxPages

\* C15: when the written document has a cover page, its first page is the
\* cover.
C15_CoverFirst ==
  (docWritten /\ \E k \in 1..Len(doc) : doc[k].kind = "cover")
    => doc[1].kind = "cover"

\* C17: every image added to the PDF has the pixel size PAGE_SIZE: generated
\* images, the cover and the placeholder alike.
C17_AllPageSized ==
  \A k \in 1..Len(pdf) : pdf[k].size = PAGE_SIZE(script)

\* A placeholder and a generated image, which the service returned in a size
\* other than PAGE_SIZE, have both been added.
C17_Witness ==
  /\ \E k \in 1..Len(pdf) : pdf[k].src = "placeholder"
  /\ \E k \in 1..Len(pdf) : pdf[k].src = "image"
  /\ docWritten

\* C18: with a required key missing the run ends before any work: no service
\* call, no prompt-log entry, no page and no document.
C18_NoKeysNoWork ==
  ~keysOk =>
    /\ pc \in {"start", "exit"}
    /\ calls = 0 /\ sent = {} /\ LOG_PROMPTS = <<>>
    /\ logFile = (IF fileBefore THEN <<OldEntry>> ELSE <<>>)
    /\ pdf = <<>> /\ doc = <<>> /\ ~docWritten

\* The run has ended on the missing key.
C18_Witness == ~keysOk /\ pc = "exit" /\ err = "nokeys"

\* C19 (as claimed): compositing leaves the caller's image as it was and
\* returns a new surface.
C19_InputUntouched ==
  pc = "comp_done" =>
    /\ surf.heap[surf.arg].marks = surf.before
    /\ surf.ret # 0 /\ surf.ret # surf.arg

\* C19 (amended): overlay of cli_27thMay, cli_manual and cli leaves the
\* caller's image as it was and returns the caption on a new surface; overlay
\* of cli_8thMay and cli_stable returns the caller's own image with the
\* caption drawn on it, and add_pageno draws the number on the caller's image
\* and returns nothing.
C19_PureWhereConverted ==
  pc = "comp_done" =>
    /\ script \in ConvertScripts =>
         /\ surf.heap[surf.arg] = NewImage("RGB", surf.before)
         /\ surf.ret \notin {0, surf.arg}
         /\ surf.heap[surf.ret] = NewImage("RGB", surf.before \cup {"caption"})
    /\ script \in MakeImageScripts =>
         /\ surf.ret = surf.arg
         /\ surf.heap[surf.arg].marks = surf.before \cup {"caption"}
    /\ script = "cli_coloring" =>
         /\ surf.ret = 0
         /\ surf.heap[surf.arg].marks = surf.before \cup {"pageno"}

\* A caption has been put on a picture by the overlay of cli_27thMay.
C19_Witness ==
  /\ pc = "comp_done" /\ script = "cli_27thMay"
  /\ "caption" \in surf.heap[surf.ret].marks
  /\ "caption" \notin surf.heap[surf.arg].marks

\* The text of a field without the spaces that join its lines.
Content(field) == SelectSeq(field, LAMBDA t : t # "sp")

\* Positions of the lines of the kinds ks among lines lo..hi of the text t.
LinesOf(t, ks, lo, hi) == {q \in lo..hi : t[q].k \in ks}

SetMin(S) == CHOOSE x \in S : \A y \in S : x <= y

\* The last line of the page whose header is line h.
PageEnd(t, h) == SetMin(LinesOf(t, {"hdr"}, h + 1, Len(t)) \cup {Len(t) + 1}) - 1

RECURSIVE Bodies(_, _, _)
\* The texts of lines lo..hi, in order.
Bodies(t, lo, hi) ==
  IF lo > hi THEN <<>> ELSE Stripped(t[lo].body) \o Bodies(t, lo + 1, hi)

\* What the claim gives a field of the page with header line h, for the
\* marker kind mk: the text on the marker line and the lines that follow it,
\* up to the next marker or the end of the page.
FieldOf(t, h, mk) ==
  LET hi == PageEnd(t, h)
      at == LinesOf(t, {mk}, h + 1, hi)
  IN IF at = {} THEN <<>>
     ELSE LET p == SetMin(at)
              stop == SetMin(LinesOf(t, {"img", "cap"}, p + 1, hi) \cup {hi + 1})
          IN Bodies(t, p, stop - 1)

\* Every marker of the text lies in a page, and no page has two of a kind.
MarkersInPages(t) ==
  /\ \A q \in LinesOf(t, {"img", "cap", "capbare"}, 1, Len(t)) :
       LinesOf(t, {"hdr"}, 1, q) # {}
  /\ \A h \in LinesOf(t, {"hdr"}, 1, Len(t)) :
       /\ Cardinality(LinesOf(t, {"img"}, h + 1, PageEnd(t, h))) <= 1
       /\ Cardinality(LinesOf(t, {"cap"}, h + 1, PageEnd(t, h))) <= 1

\* C20: parse_spec takes the lines that follow an "A4 Image Prompt" marker, up
\* to the next text marker or page header, into the page's image prompt in
\* their order, and the lines that follow a text marker into its caption; for
\* every text whose markers lie in pages, one of a kind per page.
C20_ParseAccumulates ==
  (pc \in {"parsed", "parse_err"} /\ MarkersInPages(parse.text)) =>
    /\ pc = "parsed"
    /\ Len(parse.pages) = Cardinality(LinesOf(parse.text, {"hdr"}, 1, Len(parse.text)))
    /\ \A j \in 1..Len(parse.pages) :
         /\ Content(parse.pages[j].img) = FieldOf(parse.text, parse.pages[j].ord, "img")
         /\ Content(parse.pages[j].cap) = FieldOf(parse.text, parse.pages[j].ord, "cap")

\* Attempts of the current synthesizer call made with the prompt of tier t.
TierAttempts(t) == {k \in 1..Len(attempts) : attempts[k].tier = t}

\* Tiers used in order, with n attempts to a tier: no tier gets more than n
\* attempts, the generic prompt is used only after n attempts with the
\* specific one, and never the specific one after the generic one.
PerTier(n) ==
  /\ Cardinality(TierAttempts("specific")) <= n
  /\ Cardinality(TierAttempts("generic")) <= n
  /\ TierAttempts("generic") # {} => Cardinality(TierAttempts("specific")) = n
  /\ \A j, k \in 1..Len(attempts) :
       (j < k /\ attempts[j].tier = "generic") => attempts[k].tier = "generic"

\* C21 (as claimed): make_image tries the tiers in order, each with up to
\* max_attempts_per_tier attempts before the next one is used, whatever that
\* number is, and never returns to the specific prompt.
C21_TiersInOrder ==
  (script \in MakeImageScripts /\ pc = "synth_done") =>
    \E n \in 1..(MAX_RETRY + 1) : PerTier(n)

\* C21 (amended): make_image issues the specific prompt for its first attempt
\* only; every later attempt, of at most MAX_RETRY + 1 in all, uses the
\* generic prompt and none returns to the specific one.
C21_SpecificOnceThenGeneric ==
  script \in MakeImageScripts =>
    /\ Len(attempts) <= MAX_RETRY + 1
    /\ \A k \in 1..Len(attempts) :
         attempts[k].tier = (IF k = 1 THEN "specific" ELSE "generic")
    /\ (pc \in SynthPcs /\ Len(attempts) >= 1) => tier = "generic"

\* make_image returned an image from its last attempt, after two failures.
C21_Witness ==
  /\ script \in MakeImageScripts /\ pc = "synth_done"
  /\ Len(attempts) = MAX_RETRY + 1
  /\ attempts[MAX_RETRY + 1].out = "ok"

BoxW(b) == b[3] - b[1]
BoxH(b) == b[4] - b[2]

\* C22 (as claimed): the box that cli_27thMay's and cli_manual's overlay draw
\* has the width and the height of the box at the preferred position.
C22_OnlyTranslated ==
  (script \in {"cli_27thMay", "cli_manual"} /\ layOut.done) =>
    /\ BoxW(layOut.box) = BoxW(layOut.pref)
    /\ BoxH(layOut.box) = BoxH(layOut.pref)

\* C22 (amended): cli_27thMay's overlay only moves the box up: it keeps its
\* left and right edges, its width and its height.  cli_manual's overlay keeps
\* the height and the vertical position, and keeps the preferred box when that
\* lies within the side margins; otherwise it puts the left and right edges on
\* the margins, which makes the box narrower than the preferred one.
C22_TranslatedOrClamped ==
  layOut.done =>
    /\ script = "cli_27thMay" =>
         /\ layOut.box[1] = layOut.pref[1] /\ layOut.box[3] = layOut.pref[3]
         /\ BoxH(layOut.box) = BoxH(layOut.pref)
         /\ layOut.box[2] <= layOut.pref[2]
    /\ script = "cli_manual" =>
         /\ layOut.box[2] = layOut.pref[2] /\ layOut.box[4] = layOut.pref[4]
         /\ IF layOut.pref[1] >= MANUAL_MARGIN
              THEN layOut.box = layOut.pref
              ELSE /\ layOut.box[1] = MANUAL_MARGIN
                   /\ layOut.box[3] = SurfaceW - MANUAL_MARGIN
                   /\ BoxW(layOut.box) < BoxW(layOut.pref)

\* cli_27thMay's overlay has moved a box up from its preferred position.
C22_Witness ==
  /\ script = "cli_27thMay" /\ layOut.done
  /\ layOut.box[2] < layOut.pref[2]

\* C23: imagen of cli_27thMay and cli_manual and _imagen of cli wait only
\* between attempts, and linearly: about k seconds (k or k + 1) after the
\* failed attempt k that is not the last, nothing after a successful attempt
\* and nothing after the last failed attempt.
C23_LinearBackoff ==
  script \in {"cli_27thMay", "cli_manual", "cli"} =>
    \A k \in 1..Len(attempts) :
      /\ attempts[k].k = k
      /\ attempts[k].out = "ok" => attempts[k].secs = 0
      /\ (attempts[k].out # "ok" /\ k = MaxAttempts(script)) => attempts[k].secs = 0
      /\ (attempts[k].out # "ok" /\ k < MaxAttempts(script)) =>
           attempts[k].secs \in {k, k + 1}

RECURSIVE Joined(_)
\* The words of the lines, joined in order.
Joined(ls) == IF ls = <<>> THEN <<>> ELSE Head(ls) \o Joined(Tail(ls))

\* C24: the lines the greedy wrap produces are all non-empty and, joined,
\* are the caption's words in their order, each exactly once.
C24_WrapLossless ==
  pc = "wrapped" =>
    /\ \A i \in 1..Len(lines) : lines[i] # <<>>
    /\ Joined(lines) = words

\* A caption has been wrapped into more than one line, with a line of more
\* than one word and a word too wide for a line among them.
C24_Witness ==
  /\ pc = "wrapped" /\ Len(lines) >= 2
  /\ \E i \in 1..Len(lines) : Len(lines[i]) >= 2
  /\ \E i \in 1..Len(lines) : TextLength(lines[i]) > UsableW(SurfaceW)

RECURSIVE Ascending(_)
\* The members of a set of numbers, in ascending order.
Ascending(S) == IF S = {} THEN <<>> ELSE <<SetMin(S)>> \o Ascending(S \ {SetMin(S)})

\* C25: for every sequence of lines parse_spec returns without raising, with
\* one page record for each header line in the order of the headers; a page
\* without markers has empty fields, whatever lines stand before the first
\* header or in the page.
C25_ParseTotal ==
  /\ pc # "parse_err"
  /\ pc = "parsed" =>
       LET hdrs == Ascending(LinesOf(parse.text, {"hdr"}, 1, Len(parse.text)))
       IN /\ Len(parse.pages) = Len(hdrs)
          /\ \A j \in 1..Len(hdrs) :
               /\ parse.pages[j].ord = hdrs[j]
               /\ LinesOf(parse.text, {"img", "cap"}, hdrs[j] + 1,
                          PageEnd(parse.text, hdrs[j])) = {}
                    => (parse.pages[j].img = <<>> /\ parse.pages[j].cap = <<>>)

====
